---------------------------- MODULE Spec2Model ----------------------------
(* A model of homeassistant/components/http/view.py:                      *)
(*   - HomeAssistantView.register          (view.py 78-99)                *)
(*   - request_handler_factory and handle  (view.py 102-159)              *)
EXTENDS Integers, Sequences, FiniteSets, TLC

VARIABLES
    \* ---- the adapter built by request_handler_factory and its requests
    requires_auth,   \* view.requires_auth, captured by the closure
    handler_form,    \* what kind of callable the wrapped handler is
    wrapped,         \* "unwrapped" | "ok" | "AssertionError"
    is_running,      \* request.app[KEY_HASS].is_running
    req,             \* per request: position in handle() and what it did
    \* ---- HomeAssistantView.register
    view,            \* the view instance: url, extra_urls, cors_allowed, handlers
    router,          \* routes of the router, in the order add_route made them
    cors_calls,      \* routes app["allow_cors"] was called with, in order
    events,          \* external calls of all register calls, in order
    adapters,        \* number of adapters request_handler_factory has made
    last_call        \* what the latest register call started from and how it ended

vars == <<requires_auth, handler_form, wrapped, is_running, req,
          view, router, cors_calls, events, adapters, last_call>>

handleVars == <<requires_auth, handler_form, wrapped, is_running, req>>
registerVars == <<view, router, cors_calls, events, adapters, last_call>>

-----------------------------------------------------------------------------
(* Bounds of the model *)

MaxLen == 2            \* longest bytes / text payload
MaxTupleLen == 3       \* longest tuple a handler returns
MaxRequests == 2       \* requests in flight in the concurrent specification
MaxHandlers == 2       \* method handlers a view declares at most
MaxExtra == 1          \* alternate URLs of a view at most
MaxRegistrations == 2  \* calls of register on the same view

(* Program constants *)

HTTP_OK == 200
HTTP_SERVICE_UNAVAILABLE == 503

SeqsUpTo(S, n) == UNION {[1..k -> S] : k \in 0..n}

-----------------------------------------------------------------------------
(* Python values a handler can return.  An atom is a value that is not     *)
(* looked into further; a value is an atom or a tuple / list of atoms.     *)

ByteValues == {65, 255}
CodePoints == {65, 233, 8364, 128512}   \* 1, 2, 3 and 4 byte encodings
StatusCodes == {201, 404}

MkAtom(k, d, n, o) == [kind |-> k, data |-> d, num |-> n, oid |-> o]

NoneAtom == MkAtom("none", <<>>, 0, "")

BytesAtoms == {MkAtom("bytes", d, 0, "") : d \in SeqsUpTo(ByteValues, MaxLen)}
StrAtoms == {MkAtom("str", d, 0, "") : d \in SeqsUpTo(CodePoints, MaxLen)}
StreamAtoms ==
    {MkAtom("stream", <<>>, 200, "obj1"), MkAtom("stream", <<65>>, 404, "obj2"),
     MkAtom("stream", <<255>>, 200, "obj2")}
OtherAtoms ==
    {MkAtom("int", <<>>, 7, ""), MkAtom("dict", <<>>, 0, ""),
     MkAtom("tuple", <<>>, 0, "")}
StatusAtoms == {MkAtom("int", <<>>, s, "") : s \in StatusCodes}

Atoms == BytesAtoms \cup StrAtoms \cup {NoneAtom} \cup StreamAtoms \cup OtherAtoms

MkValue(a, its) ==
    [kind |-> a.kind, data |-> a.data, num |-> a.num, oid |-> a.oid, items |-> its]
AsAtom(v) == MkAtom(v.kind, v.data, v.num, v.oid)

\* (payload, status, status, ...) of every length 0..MaxTupleLen
TupleItems ==
    {<<>>} \cup
    UNION {{<<a>> \o rest : a \in Atoms, rest \in [1..(k-1) -> StatusAtoms]}
           : k \in 1..MaxTupleLen}

Values ==
    {MkValue(a, <<>>) : a \in Atoms \ {MkAtom("tuple", <<>>, 0, "")}}
    \cup {MkValue(MkAtom("tuple", <<>>, 0, ""), its) : its \in TupleItems}
    \cup {MkValue(MkAtom("list", <<>>, 0, ""), <<a, s>>) :
            a \in {NoneAtom, MkAtom("bytes", <<65>>, 0, "")}, s \in StatusAtoms}

NoneValue == MkValue(NoneAtom, <<>>)


-----------------------------------------------------------------------------
(* str.encode("utf-8") on a sequence of code points (view.py 149) *)

EncodeCodePoint(c) ==
    IF c < 128 THEN <<c>>
    ELSE IF c < 2048 THEN <<192 + (c \div 64), 128 + (c % 64)>>
    ELSE IF c < 65536 THEN
        <<224 + (c \div 4096), 128 + ((c \div 64) % 64), 128 + (c % 64)>>
    ELSE <<240 + (c \div 262144), 128 + ((c \div 4096) % 64),
           128 + ((c \div 64) % 64), 128 + (c % 64)>>

RECURSIVE Utf8Encode(_)
Utf8Encode(s) ==
    IF s = <<>> THEN <<>> ELSE EncodeCodePoint(Head(s)) \o Utf8Encode(Tail(s))

-----------------------------------------------------------------------------
(* Exceptions.  A handler raises one of HandlerExceptions; the adapter     *)
(* raises the aiohttp HTTP exceptions of view.py 9-13 and the built-in     *)
(* AssertionError / ValueError.                                            *)

HandlerExceptions ==
    {"Invalid", "ServiceNotFound", "Unauthorized", "HomeAssistantError",
     "KeyError", "HTTPNotFound"}

\* status_code of the aiohttp.web_exceptions classes; 0: not an HTTP exception
HTTPStatus(exc) ==
    CASE exc = "HTTPBadRequest" -> 400
      [] exc = "HTTPUnauthorized" -> 401
      [] exc = "HTTPNotFound" -> 404
      [] exc = "HTTPInternalServerError" -> 500
      [] OTHER -> 0

(* How a request ends: a response returned or an exception raised *)
MkResponse(st, b, o) ==
    [kind |-> "response", status |-> st, body |-> b, oid |-> o, exc |-> ""]
MkRaise(e) ==
    [kind |-> "raise", status |-> HTTPStatus(e), body |-> <<>>, oid |-> "", exc |-> e]

(* What a handler does with one request: returns `value` or raises `exc`,  *)
(* either directly or through a coroutine that has to be awaited.          *)
MkBehaviour(a, d, v, e) == [async |-> a, does |-> d, value |-> v, exc |-> e]

Behaviours ==
    {MkBehaviour(a, "return", v, "") : a \in BOOLEAN, v \in Values}
    \cup {MkBehaviour(a, "raise", NoneValue, e) : a \in BOOLEAN, e \in HandlerExceptions}

\* the behaviours used where several requests interleave
CoreBehaviours ==
    {MkBehaviour(a, "return", NoneValue, "") : a \in BOOLEAN}
    \cup {MkBehaviour(TRUE, "return", MkValue(MkAtom("int", <<>>, 7, ""), <<>>), ""),
          MkBehaviour(TRUE, "raise", NoneValue, "Invalid"),
          MkBehaviour(FALSE, "raise", NoneValue, "KeyError")}

HandlerForms == {"coroutine", "callback", "plain"}

\* calling a coroutine function always yields a coroutine; a callback may
\* return a plain result or a coroutine
FormAllows(form, beh) == form = "coroutine" => beh.async

AuthFlags == {"absent", "false", "true"}

\* request.match_info: the names of the path parameters the router extracted
MatchInfos == {<<>>, <<"entity_id">>}

MkRequest(r, flag, mi) == [id |-> r, authenticated |-> flag, match_info |-> mi]

\* faulty variant: the flag defaults to authenticated when the request has none
AuthenticatedByDefault(request) == request.authenticated # "false"

\* request.get(KEY_AUTHENTICATED, False)                      (view.py 113)
Authenticated(request) == request.authenticated = "true"

-----------------------------------------------------------------------------
(* request_handler_factory: the assertion on the handler (view.py 104-106) *)

\* faulty variant: the assertion without its `or is_callback(handler)`
RequestHandlerFactoryCoroutineOnly(form) ==
    IF form = "coroutine" THEN "ok" ELSE "AssertionError"

RequestHandlerFactory(form) ==
    IF form \in {"coroutine", "callback"} THEN "ok" ELSE "AssertionError"

-----------------------------------------------------------------------------
(* handle(request).  A run is what one request has done so far: the steps  *)
(* taken, the handler invocations, and the ways it has ended.              *)

NoArgs == [request |-> 0, kwargs |-> <<>>]

NewRun ==
    [trace |-> <<>>, outcomes |-> <<>>, invoked |-> 0, called_with |-> NoArgs,
     suspended |-> FALSE]

Step(run, name) == [run EXCEPT !.trace = Append(@, name)]
Finish(run, out) == [run EXCEPT !.outcomes = Append(@, out), !.suspended = FALSE]

\* faulty variant: the status code of a (payload, status) pair is dropped
NormalizeDropsStatus(run, result) ==
    LET r0 == Step(run, "normalization") IN
    IF result.kind = "stream"
    THEN Finish(r0, MkResponse(result.num, result.data, result.oid))
    ELSE IF result.kind = "tuple" /\ Len(result.items) # 2
    THEN Finish(r0, MkRaise("ValueError"))
    ELSE
      LET payload == IF result.kind = "tuple" THEN result.items[1] ELSE AsAtom(result)
      IN  CASE payload.kind = "bytes" ->
                 Finish(r0, MkResponse(HTTP_OK, payload.data, "adapter"))
            [] payload.kind = "str" ->
                 Finish(r0, MkResponse(HTTP_OK, Utf8Encode(payload.data), "adapter"))
            [] payload.kind = "none" ->
                 Finish(r0, MkResponse(HTTP_OK, <<>>, "adapter"))
            [] OTHER -> Finish(r0, MkRaise("AssertionError"))

\* faulty variant: an unrecognized payload is answered with HTTP 500 instead of the
\* assertion
NormalizeBadPayloadAs500(run, result) ==
    LET r0 == Step(run, "normalization") IN
    IF result.kind = "stream"
    THEN Finish(r0, MkResponse(result.num, result.data, result.oid))
    ELSE IF result.kind = "tuple" /\ Len(result.items) # 2
    THEN Finish(r0, MkRaise("ValueError"))
    ELSE
      LET payload == IF result.kind = "tuple" THEN result.items[1] ELSE AsAtom(result)
          status_code == IF result.kind = "tuple" THEN result.items[2].num ELSE HTTP_OK
      IN  CASE payload.kind = "bytes" ->
                 Finish(r0, MkResponse(status_code, payload.data, "adapter"))
            [] payload.kind = "str" ->
                 Finish(r0, MkResponse(status_code, Utf8Encode(payload.data), "adapter"))
            [] payload.kind = "none" ->
                 Finish(r0, MkResponse(status_code, <<>>, "adapter"))
            [] OTHER -> Finish(r0, MkRaise("HTTPInternalServerError"))

\* view.py 137-157
Normalize(run, result) ==
    LET r0 == Step(run, "normalization") IN
    IF result.kind = "stream"
    THEN Finish(r0, MkResponse(result.num, result.data, result.oid))
    ELSE IF result.kind = "tuple" /\ Len(result.items) # 2
    THEN Finish(r0, MkRaise("ValueError"))
    ELSE
      LET payload == IF result.kind = "tuple" THEN result.items[1] ELSE AsAtom(result)
          status_code == IF result.kind = "tuple" THEN result.items[2].num ELSE HTTP_OK
      IN  CASE payload.kind = "bytes" ->
                 Finish(r0, MkResponse(status_code, payload.data, "adapter"))
            [] payload.kind = "str" ->
                 Finish(r0, MkResponse(status_code, Utf8Encode(payload.data), "adapter"))
            [] payload.kind = "none" ->
                 Finish(r0, MkResponse(status_code, <<>>, "adapter"))
            [] OTHER -> Finish(r0, MkRaise("AssertionError"))

\* faulty variant: the except clause for exceptions.Unauthorized is missing
TranslateWithoutUnauthorized(run, exc) ==
    LET r0 == Step(run, "translation") IN
    CASE exc = "Invalid" -> Finish(r0, MkRaise("HTTPBadRequest"))
      [] exc = "ServiceNotFound" -> Finish(r0, MkRaise("HTTPInternalServerError"))
      [] OTHER -> Finish(r0, MkRaise(exc))

\* the except clauses, view.py 130-135
Translate(run, exc) ==
    LET r0 == Step(run, "translation") IN
    CASE exc = "Invalid" -> Finish(r0, MkRaise("HTTPBadRequest"))
      [] exc = "ServiceNotFound" -> Finish(r0, MkRaise("HTTPInternalServerError"))
      [] exc = "Unauthorized" -> Finish(r0, MkRaise("HTTPUnauthorized"))
      [] OTHER -> Finish(r0, MkRaise(exc))

\* the handler's call or its awaited coroutine has completed
Completed(run, beh) ==
    IF beh.does = "raise" THEN Translate(run, beh.exc) ELSE Normalize(run, beh.value)

\* view.py 125-129: the call, and the await when it gave a coroutine
Invoke(run, request, beh) ==
    LET r0 == [Step(run, "invocation") EXCEPT
                 !.invoked = @ + 1,
                 !.called_with = [request |-> request.id, kwargs |-> request.match_info]]
    IN
    IF beh.async
    THEN [Step(r0, "await") EXCEPT !.suspended = TRUE]
    ELSE Completed(r0, beh)

\* view.py 113-116
AuthenticationCheck(run, ra, request, beh) ==
    LET r0 == Step(run, "authentication") IN
    IF ra /\ ~Authenticated(request)
    THEN Finish(r0, MkRaise("HTTPUnauthorized"))
    ELSE Invoke(r0, request, beh)

\* faulty variant: the authentication check comes before the readiness check
HandleEntryAuthFirst(ra, running, request, beh) ==
    LET r0 == Step(NewRun, "authentication") IN
    IF ra /\ ~Authenticated(request)
    THEN Finish(r0, MkRaise("HTTPUnauthorized"))
    ELSE LET r1 == Step(r0, "readiness") IN
         IF ~running
         THEN Finish(r1, MkResponse(HTTP_SERVICE_UNAVAILABLE, <<>>, "adapter"))
         ELSE Invoke(r1, request, beh)

\* view.py 110-111, then the rest of handle up to its first suspension
HandleEntry(ra, running, request, beh) ==
    LET r0 == Step(NewRun, "readiness") IN
    IF ~running
    THEN Finish(r0, MkResponse(HTTP_SERVICE_UNAVAILABLE, <<>>, "adapter"))
    ELSE AuthenticationCheck(r0, ra, request, beh)

\* faulty variant: after the await the handler is called a second time
HandleResumeCallsAgain(run, beh) ==
    Completed([Step(run, "invocation") EXCEPT !.invoked = @ + 1,
                                              !.suspended = FALSE], beh)

\* handle after `await result` (view.py 129) returns or raises
HandleResume(run, beh) == Completed([run EXCEPT !.suspended = FALSE], beh)

-----------------------------------------------------------------------------
(* State of the requests *)

Requests == 1..MaxRequests

IdleRequest ==
    [pc |-> "idle", authenticated |-> "absent", match_info |-> <<>>,
     beh |-> MkBehaviour(FALSE, "return", NoneValue, ""),
     seen_running |-> FALSE, run |-> NewRun]

PcOf(run) == IF run.suspended THEN "awaiting" ELSE "done"

\* request_handler_factory(view, handler)
Wrap ==
    /\ wrapped = "unwrapped"
    /\ wrapped' = RequestHandlerFactory(handler_form)
    /\ UNCHANGED <<requires_auth, handler_form, is_running, req>>
    /\ UNCHANGED registerVars

\* the router calls handle(request): it runs to its first suspension
Start(r, B) ==
    /\ wrapped = "ok"
    /\ req[r].pc = "idle"
    /\ \E flag \in AuthFlags, mi \in MatchInfos, beh \in B :
          /\ FormAllows(handler_form, beh)
          /\ LET run == HandleEntry(requires_auth, is_running,
                                    MkRequest(r, flag, mi), beh)
             IN  req' = [req EXCEPT ![r] =
                          [pc |-> PcOf(run), authenticated |-> flag,
                           match_info |-> mi, beh |-> beh,
                           seen_running |-> is_running, run |-> run]]
    /\ UNCHANGED <<requires_auth, handler_form, wrapped, is_running>>
    /\ UNCHANGED registerVars

\* the awaited coroutine completes and handle runs to its end
Resume(r) ==
    /\ req[r].pc = "awaiting"
    /\ LET run == HandleResume(req[r].run, req[r].beh) IN
       req' = [req EXCEPT ![r].run = run, ![r].pc = PcOf(run)]
    /\ UNCHANGED <<requires_auth, handler_form, wrapped, is_running>>
    /\ UNCHANGED registerVars

\* the application starts or stops; this layer only reads the flag
SetRunning ==
    /\ is_running' = ~is_running
    /\ UNCHANGED <<requires_auth, handler_form, wrapped, req>>
    /\ UNCHANGED registerVars

-----------------------------------------------------------------------------
(* HomeAssistantView.register (view.py 78-99) *)

\* the order of the for loop, view.py 84
MethodOrder == <<"get", "post", "delete", "put", "patch", "head", "options">>
Methods == {MethodOrder[i] : i \in DOMAIN MethodOrder}

\* getattr(self, method, None): no attribute (or a falsy one), or a callable
HandlerKinds == {"absent"} \cup HandlerForms

NoUrl == "None"
PrimaryUrls == {NoUrl, "", "/api/a"}
AlternateUrls == {"/api/b", "/api/c"}

Handled(v) == {m \in Methods : v.handlers[m] # "absent"}

Views ==
    {v \in [url : PrimaryUrls, extra_urls : SeqsUpTo(AlternateUrls, MaxExtra),
            cors_allowed : BOOLEAN, handlers : [Methods -> HandlerKinds]] :
        Cardinality(Handled(v)) <= MaxHandlers}

NoUrlMessage == "AssertionError: No url set for view"
BadHandlerMessage == "AssertionError: Handler should be a coroutine or a callback."

\* faulty variant: the alternate URLs are forgotten
UrlsPrimaryOnly(v) == <<v.url>>

\* urls = [self.url] + self.extra_urls                            (view.py 81)
Urls(v) == <<v.url>> \o v.extra_urls

\* the inner loop, view.py 92-93: router.add_route(method, url, handler)
RECURSIVE AddUrls(_, _, _, _)
AddUrls(method, urls, handler, acc) ==
    IF urls = <<>> THEN acc
    ELSE
      LET route == [method |-> method, url |-> Head(urls), handler |-> handler,
                    idx |-> Len(acc.router) + 1]
      IN  AddUrls(method, Tail(urls), handler,
                  [acc EXCEPT !.router = Append(@, route),
                              !.events = Append(@, [op |-> "add_route", route |-> route.idx])])

\* the outer loop, view.py 84-93, from the i-th method on
RECURSIVE AddMethods(_, _, _)
AddMethods(v, i, acc) ==
    IF i > Len(MethodOrder) THEN acc
    ELSE
      LET method == MethodOrder[i]
          handler == v.handlers[method]
      IN  IF handler = "absent" THEN AddMethods(v, i + 1, acc)
          ELSE IF RequestHandlerFactory(handler) # "ok"
          THEN [acc EXCEPT !.outcome = BadHandlerMessage]
          ELSE AddMethods(v, i + 1,
                  AddUrls(method, Urls(v), acc.adapters + 1,
                          [acc EXCEPT !.adapters = @ + 1]))

\* view.py 98-99: app["allow_cors"](route) for the routes of this call
RECURSIVE AllowCors(_, _)
AllowCors(routes, acc) ==
    IF routes = <<>> THEN acc
    ELSE AllowCors(Tail(routes),
            [acc EXCEPT !.cors_calls = Append(@, Head(routes)),
                        !.events = Append(@, [op |-> "allow_cors", route |-> Head(routes).idx])])

\* faulty variant: the url assertion comes after the routes have been added
RegisterViewLateAssert(v, st) ==
    LET added == AddMethods(v, 1, [st EXCEPT !.outcome = "returned"])
        routes == SubSeq(added.router, Len(st.router) + 1, Len(added.router))
        done == IF added.outcome # "returned" THEN added
                ELSE IF ~v.cors_allowed THEN added
                ELSE AllowCors(routes, added)
    IN  IF v.url = NoUrl THEN [done EXCEPT !.outcome = NoUrlMessage] ELSE done

\* faulty variant: allow_cors is called on every route of the router
RegisterViewCorsAll(v, st) ==
    IF v.url = NoUrl THEN [st EXCEPT !.outcome = NoUrlMessage]
    ELSE
      LET added == AddMethods(v, 1, [st EXCEPT !.outcome = "returned"])
      IN  IF added.outcome # "returned" THEN added
          ELSE IF ~v.cors_allowed THEN added
          ELSE AllowCors(added.router, added)

\* register(self, app, router) on the router state st
RegisterView(v, st) ==
    IF v.url = NoUrl THEN [st EXCEPT !.outcome = NoUrlMessage]
    ELSE
      LET added == AddMethods(v, 1, [st EXCEPT !.outcome = "returned"])
          routes == SubSeq(added.router, Len(st.router) + 1, Len(added.router))
      IN  IF added.outcome # "returned" THEN added
          ELSE IF ~v.cors_allowed THEN added
          ELSE AllowCors(routes, added)

Register ==
    /\ last_call.n < MaxRegistrations
    /\ LET st == [router |-> router, cors_calls |-> cors_calls, events |-> events,
                  adapters |-> adapters, outcome |-> "none"]
           res == RegisterView(view, st)
       IN  /\ router' = res.router
           /\ cors_calls' = res.cors_calls
           /\ events' = res.events
           /\ adapters' = res.adapters
           /\ last_call' = [n |-> last_call.n + 1, routes_before |-> Len(router),
                            cors_before |-> Len(cors_calls),
                            events_before |-> Len(events),
                            adapters_before |-> adapters, outcome |-> res.outcome]
    /\ UNCHANGED view
    /\ UNCHANGED handleVars

-----------------------------------------------------------------------------
(* Specifications *)

NoCall ==
    [n |-> 0, routes_before |-> 0, cors_before |-> 0, events_before |-> 0,
     adapters_before |-> 0, outcome |-> "none"]

DefaultView ==
    [url |-> "/api/a", extra_urls |-> <<>>, cors_allowed |-> FALSE,
     handlers |-> [m \in Methods |-> "absent"]]

InitRouter ==
    /\ router = <<>>
    /\ cors_calls = <<>>
    /\ events = <<>>
    /\ adapters = 0
    /\ last_call = NoCall

InitAdapter ==
    /\ requires_auth \in BOOLEAN
    /\ handler_form \in HandlerForms
    /\ wrapped = "unwrapped"
    /\ is_running \in BOOLEAN
    /\ req = [r \in Requests |-> IdleRequest]

\* one adapter, one request, every handler behaviour
Init ==
    /\ InitAdapter
    /\ view = DefaultView
    /\ InitRouter

Next ==
    \/ Wrap
    \/ Start(1, Behaviours)
    \/ Resume(1)
    \/ SetRunning

Spec == Init /\ [][Next]_vars

\* one adapter, several requests interleaving at the await
NextConc ==
    \/ Wrap
    \/ \E r \in Requests : Start(r, CoreBehaviours)
    \/ \E r \in Requests : Resume(r)
    \/ SetRunning

SpecConc == Init /\ [][NextConc]_vars

\* a view registered with a router
InitRegister ==
    /\ view \in Views
    /\ InitRouter
    /\ requires_auth = TRUE
    /\ handler_form = "coroutine"
    /\ wrapped = "unwrapped"
    /\ is_running = FALSE
    /\ req = [r \in Requests |-> IdleRequest]

NextRegister == Register

SpecRegister == InitRegister /\ [][NextRegister]_vars

-----------------------------------------------------------------------------
(* Claims about the adapter *)

Started == {r \in Requests : req[r].pc # "idle"}
Ended == {r \in Requests : req[r].pc = "done"}
Invoked == {r \in Requests : req[r].run.invoked > 0}

Positions(seq, x) == {i \in DOMAIN seq : seq[i] = x}

\* C1: a request handled while is_running is false gets a 503 response and
\* its handler is never invoked, whatever the handler would do and whatever
\* the authenticated flag and requires_auth are.
C1_NotRunningGives503 ==
    \A r \in Started :
        ~req[r].seen_running =>
            /\ req[r].pc = "done"
            /\ Len(req[r].run.outcomes) = 1
            /\ req[r].run.outcomes[1].kind = "response"
            /\ req[r].run.outcomes[1].status = 503
            /\ req[r].run.invoked = 0
            /\ Positions(req[r].run.trace, "invocation") = {}

C1_Witness ==
    \E r \in Ended :
        /\ ~req[r].seen_running
        /\ requires_auth
        /\ req[r].authenticated = "absent"
        /\ req[r].beh.does = "raise"
        /\ req[r].run.outcomes[1].status = 503

\* C2: while running, a request to a view with requires_auth whose
\* authenticated flag is absent or false ends with HTTP 401 and the handler is
\* never invoked; when requires_auth is false or the flag is true the
\* authentication check lets the request through to the handler, so a 401 can
\* then only come from the handler raising Unauthorized.
C2_AuthenticationGate ==
    \A r \in Started :
        req[r].seen_running =>
            IF requires_auth /\ req[r].authenticated \in {"absent", "false"}
            THEN /\ req[r].pc = "done"
                 /\ Len(req[r].run.outcomes) = 1
                 /\ req[r].run.outcomes[1].kind = "raise"
                 /\ req[r].run.outcomes[1].exc = "HTTPUnauthorized"
                 /\ req[r].run.outcomes[1].status = 401
                 /\ req[r].run.invoked = 0
            ELSE /\ req[r].run.invoked = 1
                 /\ \A i \in DOMAIN req[r].run.outcomes :
                        req[r].run.outcomes[i].status = 401 =>
                            /\ req[r].beh.does = "raise"
                            /\ req[r].beh.exc = "Unauthorized"

C2_Witness ==
    \E r \in Ended :
        /\ req[r].seen_running
        /\ requires_auth
        /\ req[r].authenticated = "absent"
        /\ req[r].beh.does = "return"
        /\ req[r].run.outcomes[1].status = 401
        /\ req[r].run.invoked = 0

\* C3: when the invoked handler fails, directly or while awaited, a
\* validation error ends the request with HTTP 400, service-not-found with
\* HTTP 500, unauthorized with HTTP 401, every other exception propagates
\* unchanged, and no response is built.
C3_ErrorTranslation ==
    \A r \in Invoked :
        req[r].beh.does = "raise" =>
            /\ req[r].pc = "awaiting" => req[r].run.outcomes = <<>>
            /\ req[r].pc = "done" =>
                /\ Len(req[r].run.outcomes) = 1
                /\ LET out == req[r].run.outcomes[1]
                       e == req[r].beh.exc
                   IN  /\ out.kind = "raise"
                       /\ e = "Invalid" =>
                            out.exc = "HTTPBadRequest" /\ out.status = 400
                       /\ e = "ServiceNotFound" =>
                            out.exc = "HTTPInternalServerError" /\ out.status = 500
                       /\ e = "Unauthorized" =>
                            out.exc = "HTTPUnauthorized" /\ out.status = 401
                       /\ e \notin {"Invalid", "ServiceNotFound", "Unauthorized"} =>
                            out.exc = e
                /\ Positions(req[r].run.trace, "normalization") = {}

C3_Witness ==
    \E r \in Ended :
        /\ req[r].run.invoked = 1
        /\ req[r].beh.async
        /\ req[r].beh.does = "raise"
        /\ req[r].beh.exc = "ServiceNotFound"
        /\ req[r].run.outcomes[1].status = 500

\* the results the adapter normalizes: a stream response, a bytes / text /
\* None payload, or a pair (payload, status) of such a payload
PayloadKinds == {"bytes", "str", "none"}
Normalizable(v) ==
    \/ v.kind = "stream"
    \/ v.kind \in PayloadKinds
    \/ v.kind = "tuple" /\ Len(v.items) = 2 /\ v.items[1].kind \in PayloadKinds

\* UTF-8, written out for the code points of the model
RefUtf8Table ==
    [c \in CodePoints |->
        CASE c = 65 -> <<65>>
          [] c = 233 -> <<195, 169>>
          [] c = 8364 -> <<226, 130, 172>>
          [] c = 128512 -> <<240, 159, 152, 128>>]

RECURSIVE RefUtf8(_)
RefUtf8(t) == IF t = <<>> THEN <<>> ELSE RefUtf8Table[Head(t)] \o RefUtf8(Tail(t))

RefPayload(v) == IF v.kind = "tuple" THEN v.items[1] ELSE v
RefStatus(v) == IF v.kind = "tuple" THEN v.items[2].num ELSE 200
RefBody(v) ==
    LET pl == RefPayload(v) IN
    CASE pl.kind = "bytes" -> pl.data
      [] pl.kind = "str" -> RefUtf8(pl.data)
      [] pl.kind = "none" -> <<>>

\* C4: for a stream response, a bytes / text / None payload, or a pair
\* (payload, status) of such a payload, the response is the reference
\* normalization: the stream response itself, or status = the pair's status
\* (200 without a pair) and body = the bytes, the UTF-8 encoding of the text,
\* or empty bytes for None.
C4_ResultNormalization ==
    \A r \in Ended :
        /\ req[r].run.invoked = 1
        /\ req[r].beh.does = "return"
        /\ Normalizable(req[r].beh.value)
        => LET v == req[r].beh.value IN
           /\ Len(req[r].run.outcomes) = 1
           /\ req[r].run.outcomes[1].kind = "response"
           /\ IF v.kind = "stream"
              THEN /\ req[r].run.outcomes[1].oid = v.oid
                   /\ req[r].run.outcomes[1].status = v.num
                   /\ req[r].run.outcomes[1].body = v.data
              ELSE /\ req[r].run.outcomes[1].oid = "adapter"
                   /\ req[r].run.outcomes[1].status = RefStatus(v)
                   /\ req[r].run.outcomes[1].body = RefBody(v)

C4_Witness ==
    \E r \in Ended :
        /\ req[r].run.invoked = 1
        /\ req[r].beh.does = "return"
        /\ req[r].beh.value.kind = "tuple"
        /\ Len(req[r].beh.value.items) = 2
        /\ req[r].beh.value.items[1].kind = "str"
        /\ req[r].beh.value.items[1].data = <<8364, 233>>
        /\ req[r].run.outcomes[1].status = 201
        /\ req[r].run.outcomes[1].body = <<226, 130, 172, 195, 169>>

\* C9: a result that is none of the normalizable ones makes the adapter fail
\* with a non-HTTP error; no response is built and the failure is not turned
\* into a 4xx / 5xx HTTP error.
C9_BadResultIsFatal ==
    \A r \in Ended :
        /\ req[r].run.invoked = 1
        /\ req[r].beh.does = "return"
        /\ ~Normalizable(req[r].beh.value)
        => /\ Len(req[r].run.outcomes) = 1
           /\ req[r].run.outcomes[1].kind = "raise"
           /\ req[r].run.outcomes[1].exc \in {"AssertionError", "ValueError"}
           /\ req[r].run.outcomes[1].status = 0

C9_Witness ==
    \E r \in Ended :
        /\ req[r].run.invoked = 1
        /\ req[r].beh.does = "return"
        /\ req[r].beh.value.kind = "tuple"
        /\ Len(req[r].beh.value.items) = 2
        /\ req[r].beh.value.items[1].kind = "stream"
        /\ req[r].run.outcomes[1].exc = "AssertionError"

\* the forms request_handler_factory asserts: a coroutine function or a
\* function marked as callback
AcceptedForms == {"coroutine", "callback"}

AwaitedBeforeCompletion(r) ==
    LET run == req[r].run
        at(x) == Positions(run.trace, x)
    IN  /\ run.called_with = [request |-> r, kwargs |-> req[r].match_info]
        /\ req[r].beh.async =>
              /\ \E i \in at("invocation") : at("await") = {i + 1}
              /\ \A j \in at("translation") \cup at("normalization") :
                    \A i \in at("await") : i < j
              /\ req[r].pc = "awaiting" =>
                    /\ run.outcomes = <<>>
                    /\ at("translation") \cup at("normalization") = {}
        /\ ~req[r].beh.async => at("await") = {} /\ req[r].pc = "done"

\* C5 as stated: wrapping succeeds for every handler, synchronous or
\* asynchronous; the adapter invokes it with the request and the path
\* parameters and awaits an asynchronous handler before error translation or
\* result normalization.
C5_Original ==
    /\ wrapped # "unwrapped" => wrapped = "ok"
    /\ \A r \in Invoked : AwaitedBeforeCompletion(r)

\* C5 amended: wrapping succeeds exactly for a handler that is a coroutine
\* function or is marked as callback, and fails with an AssertionError for any
\* other synchronous function, which then serves no request; an accepted
\* handler is invoked with the request and the path parameters and, when its
\* call gives a coroutine, awaited before error translation or result
\* normalization.
C5_AcceptedHandlerForms ==
    /\ wrapped # "unwrapped" =>
          IF handler_form \in AcceptedForms
          THEN wrapped = "ok"
          ELSE wrapped = "AssertionError" /\ Started = {}
    /\ \A r \in Invoked : AwaitedBeforeCompletion(r)

C5_Witness ==
    \E r \in Ended :
        /\ handler_form = "callback"
        /\ wrapped = "ok"
        /\ req[r].beh.async
        /\ req[r].match_info # <<>>
        /\ req[r].run.trace =
             <<"readiness", "authentication", "invocation", "await", "normalization">>

StepRank(x) ==
    CASE x = "readiness" -> 1
      [] x = "authentication" -> 2
      [] x = "invocation" -> 3
      [] x = "await" -> 4
      [] x = "translation" -> 5
      [] x = "normalization" -> 6

\* C10: in every interleaving each request takes the steps readiness check,
\* authentication check, invocation, error translation / result
\* normalization in that order without going back; its handler is invoked at
\* most once and only after its own readiness and authentication checks
\* passed; and it ends with exactly one outcome.
C10_OrderedSingleOutcome ==
    \A r \in Requests :
        LET run == req[r].run
            tr == run.trace
        IN  /\ \A i, j \in DOMAIN tr : i < j => StepRank(tr[i]) < StepRank(tr[j])
            /\ Cardinality(Positions(tr, "invocation")) = run.invoked
            /\ run.invoked <= 1
            /\ run.invoked = 1 =>
                  /\ SubSeq(tr, 1, 3) = <<"readiness", "authentication", "invocation">>
                  /\ req[r].seen_running
                  /\ ~requires_auth \/ req[r].authenticated = "true"
            /\ Positions(tr, "translation") = {} \/ Positions(tr, "normalization") = {}
            /\ Len(run.outcomes) <= 1
            /\ req[r].pc = "done" <=> Len(run.outcomes) = 1
            /\ req[r].pc = "idle" <=> tr = <<>>

C10_Witness ==
    \E r1, r2 \in Requests :
        /\ r1 # r2
        /\ req[r1].pc = "done"
        /\ req[r1].beh.async
        /\ req[r1].run.invoked = 1
        /\ req[r1].seen_running
        /\ req[r2].pc = "awaiting"
        /\ ~is_running

-----------------------------------------------------------------------------
(* Claims about register *)

NewRoutes == SubSeq(router, last_call.routes_before + 1, Len(router))
NewCorsCalls == SubSeq(cors_calls, last_call.cors_before + 1, Len(cors_calls))
NewEvents == SubSeq(events, last_call.events_before + 1, Len(events))

AllAccepted(v) == \A m \in Handled(v) : v.handlers[m] \in AcceptedForms

\* C6: register on a view without primary URL fails with the configuration
\* error "No url set for view" before any effect: no route is added and
\* allow_cors is not called, whatever handlers, alternate URLs and
\* cors_allowed the view has.
C6_NoUrlFailsFirst ==
    (last_call.n > 0 /\ view.url = NoUrl) =>
        /\ last_call.outcome = NoUrlMessage
        /\ router = <<>>
        /\ cors_calls = <<>>
        /\ events = <<>>
        /\ adapters = 0

C6_Witness ==
    /\ last_call.n > 0
    /\ view.url = NoUrl
    /\ Handled(view) # {}
    /\ view.extra_urls # <<>>
    /\ view.cors_allowed
    /\ last_call.outcome = NoUrlMessage

RoutesAsClaimed ==
    LET urls == <<view.url>> \o view.extra_urls
        new == NewRoutes
    IN  /\ Len(new) = Cardinality(Handled(view)) * (1 + Len(view.extra_urls))
        /\ \A m \in Handled(view) : \A j \in DOMAIN urls :
              Cardinality({k \in DOMAIN new : new[k].method = m /\ new[k].url = urls[j]})
                = Cardinality(Positions(urls, urls[j]))
        /\ \A k \in DOMAIN new :
              /\ new[k].method \in Handled(view)
              /\ new[k].url \in {urls[j] : j \in DOMAIN urls}
              /\ new[k].handler > last_call.adapters_before
        /\ \A k1, k2 \in DOMAIN new :
              new[k1].method = new[k2].method <=> new[k1].handler = new[k2].handler

\* C7 as stated: for a view with a primary URL one call of register adds
\* exactly one route per (handled method, URL), that is (handled methods) x
\* (1 + alternate URLs) routes, the URLs of one method sharing one adapter.
C7_Original ==
    (last_call.n > 0 /\ view.url # NoUrl) => RoutesAsClaimed

\* C7 amended: the same, for a view with a primary URL all of whose method
\* handlers are coroutine functions or callbacks; register then returns
\* normally.
C7_RoutesAdded ==
    (last_call.n > 0 /\ view.url # NoUrl /\ AllAccepted(view)) =>
        /\ last_call.outcome = "returned"
        /\ RoutesAsClaimed

C7_Witness ==
    /\ last_call.n > 0
    /\ view.url # NoUrl
    /\ AllAccepted(view)
    /\ Cardinality(Handled(view)) = 2
    /\ Len(view.extra_urls) = 1
    /\ Len(NewRoutes) = 4

CorsAsClaimed ==
    LET new == NewRoutes
        cors == NewCorsCalls
        ev == NewEvents
    IN  /\ view.cors_allowed =>
              /\ \A k \in DOMAIN new : Cardinality(Positions(cors, new[k])) = 1
              /\ \A i \in DOMAIN cors : \E k \in DOMAIN new : cors[i] = new[k]
        /\ ~view.cors_allowed => cors = <<>>
        /\ \A i, j \in DOMAIN ev :
              (ev[i].op = "allow_cors" /\ ev[j].op = "add_route") => j < i

\* C8 as stated: during register allow_cors is invoked exactly once on each
\* route the call created and on no other route when cors_allowed is true,
\* never when it is false, and only after all routes of the call were added.
C8_Original ==
    last_call.n > 0 => CorsAsClaimed

\* C8 amended: the same, for a call of register that returns normally, which
\* it does when the view has a primary URL and all its method handlers are
\* coroutine functions or callbacks; a call that fails on its assertions
\* never invokes allow_cors, also not on routes it has already created.
C8_CorsCallbacks ==
    last_call.n > 0 =>
        IF view.url # NoUrl /\ AllAccepted(view)
        THEN last_call.outcome = "returned" /\ CorsAsClaimed
        ELSE last_call.outcome # "returned" /\ NewCorsCalls = <<>>

C8_Witness ==
    /\ last_call.n = 2
    /\ view.cors_allowed
    /\ view.url # NoUrl
    /\ AllAccepted(view)
    /\ Len(NewRoutes) = 4
    /\ Len(NewCorsCalls) = 4
    /\ Len(cors_calls) = 8
=============================================================================
